---------------------------- MODULE Spec2Model ----------------------------
(***************************************************************************)
(* llmade: rate-limited, budget-checked, schema-parsed prompts             *)
(*   lib/limiter.js  RateLimiter (two Bottleneck reservoirs per model)     *)
(*   lib/llm.js      Model, JSONParser, Prompt, TextSplitter,              *)
(*                   DocumentPrompt                                        *)
(*                                                                         *)
(* Bottleneck itself is a dependency: it is modelled by its documented     *)
(* behaviour (a job of weight 1 starts only when reservoir >= 1 and takes  *)
(* 1 unit when it starts; every reservoirRefreshInterval the reservoir is  *)
(* set to reservoirRefreshAmount; incrementReservoir(n) adds n and may     *)
(* drive the reservoir below zero; queued jobs start in FIFO order).       *)
(***************************************************************************)
EXTENDS Integers, Sequences, FiniteSets, TLC

(***************************************************************************)
(* Bounds of the model.                                                    *)
(***************************************************************************)
\* largest configured per-minute limit (requests and tokens) a model may get
MaxLimit == 3
\* number of concurrent callers of RateLimiter.process (besides Prompt.call)
NumTasks == 2
\* largest token count one task reports through reportTokens
MaxTokensUsed == 2
\* maxTokens (context window) of the targeted model
MaxContext == 2
\* largest retries argument given to Prompt.call
MaxRetries == 2
\* largest token count of one completion / one repaired value
MaxReceived == 1
\* largest caller-declared responseTokenLength
MaxResponseLength == 1
\* largest token count of a document given to DocumentPrompt.call
MaxDocTokens == 3
\* chunkSize the caller configures the splitter with
ChunkSize == 2
\* largest token count of a document whose progress figures are followed
MaxTextTokens == 8

(***************************************************************************)
(* settings.json: the configured models (modelName matching /^gpt/i).      *)
(***************************************************************************)
Models == {"gpt-4", "gpt-3.5-turbo"}

\* jobs handed to RateLimiter.process: plain tasks, the task of Prompt.call
\* and the repair task of JSONParser.parse
Tasks == 1..NumTasks
CallJob == NumTasks + 1
RepairJob == NumTasks + 2
Jobs == Tasks \cup {CallJob, RepairJob}

Limits == 1..MaxLimit

VARIABLES
  \* ---- RateLimiter (one per model name, shared) ----
  maxRequestsPerMinute,  \* [Models -> Nat] configured limits
  maxTokensPerMinute,    \* [Models -> Nat]
  reqReservoir,          \* [Models -> Int] requestLimiter reservoir
  tokReservoir,          \* [Models -> Int] tokenLimiter reservoir
  reqQueue,              \* [Models -> Seq(Jobs)] jobs queued on requestLimiter
  tokQueue,              \* [Models -> Seq(Jobs)] jobs queued on tokenLimiter
  jpc,                   \* [Jobs -> position inside RateLimiter.process]
  jmodel,                \* [Jobs -> Models] the limiter the job goes through
  tokensUsed,            \* [Jobs -> Nat] the closure variable tokensUsed
  \* ---- history of the limiter (observations only) ----
  reqAdmitted,           \* [Models -> Nat] jobs started by requestLimiter this window
  tokAdmitted,           \* [Models -> Nat] jobs started by tokenLimiter this window
  netDebit               \* [Jobs -> Int] what this job's admission removed from tokReservoir

VARIABLES
  \* ---- Prompt.call (one invocation at a time) ----
  ppc,             \* position inside Prompt.call
  data,            \* the argument data
  maxRetries,      \* the argument retries as given
  tokenCount,      \* let tokenCount (measured prompt tokens)
  retries,         \* the parameter retries, decremented by the catch block
  tokensSent,      \* let tokensSent   (captured by the task closure)
  tokensReceived,  \* let tokensReceived
  cost,            \* let cost
  rawResponse,     \* what chain.call returned in this attempt
  parsedResponse,  \* what parser.parse returned in this attempt
  response,        \* the value the task returns to process
  result,          \* what Prompt.call returned
  error,           \* the error in flight / thrown by Prompt.call
  \* ---- history of the call (observations only) ----
  attempts,        \* times the call entered RateLimiter.process
  completions,     \* times chain.call was invoked
  parses,          \* times parser.parse was invoked
  failures,        \* times the catch block ran
  sleeps           \* times Delay(retryDelay) was awaited

promptVars == <<ppc, data, maxRetries, tokenCount, retries, tokensSent, tokensReceived, cost,
                rawResponse, parsedResponse, response, result, error>>
promptHistory == <<attempts, completions, parses, failures, sleeps>>

VARIABLES
  \* ---- DocumentPrompt.call (one run) ----
  dpc,                  \* position inside DocumentPrompt.call
  settings,             \* the argument settings
  excerpts,             \* excerpts returned by splitText
  totalTextTokenLength, \* totalTextTokenLength returned by splitText
  index,                \* position of the for-of loop in excerpts (0 before the first)
  count,                \* let count
  docTokensSent,        \* let tokensSent
  docTokensReceived,    \* let tokensReceived
  docCost,              \* let cost
  docResponse,          \* let response
  currentTokenCount,    \* let currentTokenCount
  docResult,            \* what DocumentPrompt.call returned
  \* ---- history of the run (observations only) ----
  submitted,            \* excerpt positions handed to prompt.call, in order of submission
  finished,             \* prompt.call invocations that have returned or thrown
  logged,               \* errors caught and logged by the loop body
  stoppedAt,            \* excerpt position after which progress returned 'stop' (0: never)
  lastResponse,         \* response of the value the latest prompt.call resolved with
  loggedKinds,          \* the kinds of the errors the loop body has logged
  consumed              \* tokens and cost of every prompt.call of the run, failed ones included

docVars == <<dpc, settings, excerpts, totalTextTokenLength, index, count, docTokensSent,
             docTokensReceived, docCost, docResponse, currentTokenCount, docResult>>
docHistory == <<submitted, finished, logged, stoppedAt, lastResponse, loggedKinds, consumed>>

VARIABLES
  \* ---- overlapping Prompt.call invocations on one Prompt instance ----
  chain,                 \* this.messages / this.promptTemplate / this.chain: the data they were rendered from
  callPc,                \* [Invocations -> position in Prompt.call]
  callData,              \* [Invocations -> the data argument]
  callRetries,           \* [Invocations -> the local retries]
  \* ---- history ----
  sentFrom,              \* [Invocations -> the data the messages it sent were rendered from]
  alone                  \* [Invocations -> no other invocation was in flight since it was called]

overlapVars == <<chain, callPc, callData, callRetries, sentFrom, alone>>

\* two invocations of call on the one Prompt, the data a call can be given,
\* and the messageData the Prompt was constructed with
Invocations == {1, 2}
CallInputs == {1, 2}
MessageData == 0

limiterVars == <<maxRequestsPerMinute, maxTokensPerMinute, reqReservoir, tokReservoir,
                 reqQueue, tokQueue, jpc, jmodel, tokensUsed>>
historyVars == <<reqAdmitted, tokAdmitted, netDebit>>

\* everything outside the limiter
clientVars == <<promptVars, promptHistory, docVars, docHistory, overlapVars>>

vars == <<limiterVars, historyVars, clientVars>>

(***************************************************************************)
(* RateLimiter.constructor                                                 *)
(***************************************************************************)
\* bufferPercentage = 0.80, as the fraction 4/5
BufferNum == 4
BufferDen == 5

\* Math.floor(limit * bufferPercentage)
Capacity(limit) == (limit * BufferNum) \div BufferDen

reqCapacity(m) == Capacity(maxRequestsPerMinute[m])
tokCapacity(m) == Capacity(maxTokensPerMinute[m])

\* Bottleneck: a job of weight 1 may start when weight <= reservoir
conditionsCheck(reservoir) == 1 <= reservoir

\* the model the callers below target
DefaultModel == "gpt-4"

\* the state the limiters are constructed in, for the limits configured
Constructed ==
  /\ reqReservoir = [m \in Models |-> reqCapacity(m)]
  /\ tokReservoir = [m \in Models |-> tokCapacity(m)]
  /\ reqQueue = [m \in Models |-> <<>>]
  /\ tokQueue = [m \in Models |-> <<>>]
  /\ jpc = [j \in Jobs |-> "idle"]
  /\ jmodel = [j \in Jobs |-> DefaultModel]
  /\ tokensUsed = [j \in Jobs |-> 0]
  /\ reqAdmitted = [m \in Models |-> 0]
  /\ tokAdmitted = [m \in Models |-> 0]
  /\ netDebit = [j \in Jobs |-> 0]

\* every configuration of the targeted model; the other models are configured
\* too but stay unused
InitLimiter ==
  /\ \E l \in Limits : maxRequestsPerMinute = [m \in Models |-> IF m = DefaultModel THEN l ELSE MaxLimit]
  /\ \E l \in Limits : maxTokensPerMinute = [m \in Models |-> IF m = DefaultModel THEN l ELSE MaxLimit]
  /\ Constructed

(***************************************************************************)
(* JavaScript values                                                       *)
(***************************************************************************)
\* undefined, where an object or a string is expected
Undefined == [undefined |-> TRUE]
\* NaN, where a number is expected (every real count and cost is >= 0)
NaN == 0 - 1

\* x || 0 on a number
OrZero(x) == IF x = NaN \/ x = 0 THEN 0 ELSE x
\* (obj.field || 0), the field possibly missing
FieldOrZero(obj, field) == IF field \in DOMAIN obj THEN OrZero(obj[field]) ELSE 0
\* x || y on numbers
OrElse(x, y) == IF x = NaN \/ x = 0 THEN y ELSE x
\* Math.round(x * 1.10) for an integer x >= 0
Round110(x) == (x * 11 + 5) \div 10

\* values a schema-conformant response can take (the schema of the tests is
\* Zod.string(), which the empty string satisfies)
ResponseValues == {[str |-> ""], [str |-> "a"], [str |-> "b"]}
\* JavaScript truthiness of a response
Truthy(v) == v # Undefined /\ v # [str |-> ""]

(***************************************************************************)
(* Model                                                                   *)
(***************************************************************************)
\* settings.json per model: context window and prices per token
maxTokens(m) == IF m = DefaultModel THEN MaxContext ELSE MaxContext + 1
tokenTxPrice(m) == IF m = DefaultModel THEN 3 ELSE 1
tokensRxPrice(m) == IF m = DefaultModel THEN 6 ELSE 2

\* models[modelName]: built from the model's full settings
SharedModel(m) ==
  [modelName |-> m, maxTokens |-> maxTokens(m),
   tokenTxPrice |-> tokenTxPrice(m), tokensRxPrice |-> tokensRxPrice(m)]

\* JSONParser's own model, new Model({modelName, temperature: 0}): maxTokens
\* and both prices are left undefined; the rate limiter is the shared one
ParserModel(m) == [modelName |-> m]

\* Model.calculateCost: an undefined price makes the product NaN
calculateCost(model, sent, received) ==
  IF {"tokenTxPrice", "tokensRxPrice"} \subseteq DOMAIN model
    THEN (sent * model.tokenTxPrice) + (model.tokensRxPrice * received)
    ELSE NaN

NoError == [kind |-> "none", attempt |-> 0]

InitPrompt ==
  /\ ppc = "idle"
  /\ data = [dryrun |-> FALSE]
  /\ maxRetries = 0
  /\ tokenCount = 0
  /\ retries = 0
  /\ tokensSent = 0
  /\ tokensReceived = 0
  /\ cost = 0
  /\ rawResponse = Undefined
  /\ parsedResponse = Undefined
  /\ response = Undefined
  /\ result = Undefined
  /\ error = NoError
  /\ attempts = 0
  /\ completions = 0
  /\ parses = 0
  /\ failures = 0
  /\ sleeps = 0

(***************************************************************************)
(* RateLimiter.process(func), for job j on model m's limiter               *)
(***************************************************************************)
\* process is entered: requestLimiter.schedule queues the job
Schedule(j, m) ==
  /\ jpc' = [jpc EXCEPT ![j] = "reqQueued"]
  /\ jmodel' = [jmodel EXCEPT ![j] = m]
  /\ tokensUsed' = [tokensUsed EXCEPT ![j] = 0]
  /\ reqQueue' = [reqQueue EXCEPT ![m] = Append(@, j)]
  /\ netDebit' = [netDebit EXCEPT ![j] = 0]
  /\ UNCHANGED <<maxRequestsPerMinute, maxTokensPerMinute, reqReservoir, tokReservoir,
                 tokQueue, reqAdmitted, tokAdmitted>>

\* one request limiter shared by all models: the unit leaves every reservoir
TakeRequest_Shared(m) ==
  /\ reqQueue[m] # <<>>
  /\ conditionsCheck(reqReservoir[m])
  /\ LET j == Head(reqQueue[m]) IN
       /\ reqQueue' = [reqQueue EXCEPT ![m] = Tail(@)]
       /\ reqReservoir' = [x \in Models |-> reqReservoir[x] - 1]
       /\ tokQueue' = [tokQueue EXCEPT ![m] = Append(@, j)]
       /\ jpc' = [jpc EXCEPT ![j] = "tokQueued"]
       /\ reqAdmitted' = [reqAdmitted EXCEPT ![m] = @ + 1]
  /\ UNCHANGED <<maxRequestsPerMinute, maxTokensPerMinute, tokReservoir, jmodel,
                 tokensUsed, tokAdmitted, netDebit>>
  /\ UNCHANGED clientVars

\* requestLimiter starts its first queued job: one unit leaves the request
\* reservoir and the job's body calls tokenLimiter.schedule
TakeRequest(m) ==
  /\ reqQueue[m] # <<>>
  /\ conditionsCheck(reqReservoir[m])
  /\ LET j == Head(reqQueue[m]) IN
       /\ reqQueue' = [reqQueue EXCEPT ![m] = Tail(@)]
       /\ reqReservoir' = [reqReservoir EXCEPT ![m] = @ - 1]
       /\ tokQueue' = [tokQueue EXCEPT ![m] = Append(@, j)]
       /\ jpc' = [jpc EXCEPT ![j] = "tokQueued"]
       /\ reqAdmitted' = [reqAdmitted EXCEPT ![m] = @ + 1]
  /\ UNCHANGED <<maxRequestsPerMinute, maxTokensPerMinute, tokReservoir, jmodel,
                 tokensUsed, tokAdmitted, netDebit>>
  /\ UNCHANGED clientVars

\* a token limiter built without a reservoir: the job starts at once
TakeToken_NoReservoir(m) ==
  /\ tokQueue[m] # <<>>
  /\ LET j == Head(tokQueue[m]) IN
       /\ tokQueue' = [tokQueue EXCEPT ![m] = Tail(@)]
       /\ jpc' = [jpc EXCEPT ![j] = "running"]
       /\ tokAdmitted' = [tokAdmitted EXCEPT ![m] = @ + 1]
  /\ UNCHANGED <<maxRequestsPerMinute, maxTokensPerMinute, reqReservoir, tokReservoir,
                 reqQueue, jmodel, tokensUsed, reqAdmitted, netDebit>>
  /\ UNCHANGED clientVars

\* a token limiter that runs one job at a time (maxConcurrent: 1): a job
\* starts only when no admitted job of the model is still running
TakeToken_Exclusive(m) ==
  /\ tokQueue[m] # <<>>
  /\ conditionsCheck(tokReservoir[m])
  /\ \A k \in Jobs : jmodel[k] = m => jpc[k] \notin {"running", "debit"}
  /\ LET j == Head(tokQueue[m]) IN
       /\ tokQueue' = [tokQueue EXCEPT ![m] = Tail(@)]
       /\ tokReservoir' = [tokReservoir EXCEPT ![m] = @ - 1]
       /\ jpc' = [jpc EXCEPT ![j] = "running"]
       /\ tokAdmitted' = [tokAdmitted EXCEPT ![m] = @ + 1]
       /\ netDebit' = [netDebit EXCEPT ![j] = @ + (tokReservoir[m] - tokReservoir'[m])]
  /\ UNCHANGED <<maxRequestsPerMinute, maxTokensPerMinute, reqReservoir, reqQueue,
                 jmodel, tokensUsed, reqAdmitted>>
  /\ UNCHANGED clientVars

\* tokenLimiter starts its first queued job: one unit leaves the token
\* reservoir and func(reportTokens) begins to run
TakeToken(m) ==
  /\ tokQueue[m] # <<>>
  /\ conditionsCheck(tokReservoir[m])
  /\ LET j == Head(tokQueue[m]) IN
       /\ tokQueue' = [tokQueue EXCEPT ![m] = Tail(@)]
       /\ tokReservoir' = [tokReservoir EXCEPT ![m] = @ - 1]
       /\ jpc' = [jpc EXCEPT ![j] = "running"]
       /\ tokAdmitted' = [tokAdmitted EXCEPT ![m] = @ + 1]
       /\ netDebit' = [netDebit EXCEPT ![j] = @ + (tokReservoir[m] - tokReservoir'[m])]
  /\ UNCHANGED <<maxRequestsPerMinute, maxTokensPerMinute, reqReservoir, reqQueue,
                 jmodel, tokensUsed, reqAdmitted>>
  /\ UNCHANGED clientVars

\* await this.tokenLimiter.incrementReservoir(-tokensUsed); return response
IncrementReservoir(j) ==
  /\ jpc[j] = "debit"
  /\ LET m == jmodel[j] IN
       /\ tokReservoir' = [tokReservoir EXCEPT ![m] = @ - tokensUsed[j]]
       /\ netDebit' = [netDebit EXCEPT ![j] = @ + (tokReservoir[m] - tokReservoir'[m])]
  /\ jpc' = [jpc EXCEPT ![j] = "returned"]
  /\ UNCHANGED <<maxRequestsPerMinute, maxTokensPerMinute, reqReservoir, reqQueue,
                 tokQueue, jmodel, tokensUsed, reqAdmitted, tokAdmitted>>
  /\ UNCHANGED clientVars

\* a refresh that forgets the buffer: the reservoir is set to the raw limit
RefreshRequests_NoBuffer(m) ==
  /\ reqReservoir' = [reqReservoir EXCEPT ![m] = maxRequestsPerMinute[m]]
  /\ reqAdmitted' = [reqAdmitted EXCEPT ![m] = 0]
  /\ UNCHANGED <<maxRequestsPerMinute, maxTokensPerMinute, tokReservoir, reqQueue,
                 tokQueue, jpc, jmodel, tokensUsed, tokAdmitted, netDebit>>
  /\ UNCHANGED clientVars

\* reservoirRefreshInterval elapsed on requestLimiter
RefreshRequests(m) ==
  /\ reqReservoir' = [reqReservoir EXCEPT ![m] = reqCapacity(m)]
  /\ reqAdmitted' = [reqAdmitted EXCEPT ![m] = 0]
  /\ UNCHANGED <<maxRequestsPerMinute, maxTokensPerMinute, tokReservoir, reqQueue,
                 tokQueue, jpc, jmodel, tokensUsed, tokAdmitted, netDebit>>
  /\ UNCHANGED clientVars

\* a token refresh that forgets the buffer: the reservoir is set to the raw
\* limit
RefreshTokens_NoBuffer(m) ==
  /\ tokReservoir' = [tokReservoir EXCEPT ![m] = maxTokensPerMinute[m]]
  /\ tokAdmitted' = [tokAdmitted EXCEPT ![m] = 0]
  /\ UNCHANGED <<maxRequestsPerMinute, maxTokensPerMinute, reqReservoir, reqQueue,
                 tokQueue, jpc, jmodel, tokensUsed, reqAdmitted, netDebit>>
  /\ UNCHANGED clientVars

\* reservoirRefreshInterval elapsed on tokenLimiter
RefreshTokens(m) ==
  /\ tokReservoir' = [tokReservoir EXCEPT ![m] = tokCapacity(m)]
  /\ tokAdmitted' = [tokAdmitted EXCEPT ![m] = 0]
  /\ UNCHANGED <<maxRequestsPerMinute, maxTokensPerMinute, reqReservoir, reqQueue,
                 tokQueue, jpc, jmodel, tokensUsed, reqAdmitted, netDebit>>
  /\ UNCHANGED clientVars

(***************************************************************************)
(* A plain caller of RateLimiter.process: func reports some token count    *)
(* and then returns or throws.                                             *)
(***************************************************************************)
TaskProcess(j, m) ==
  /\ j \in Tasks
  /\ jpc[j] \in {"idle", "returned", "threw"}
  /\ Schedule(j, m)
  /\ UNCHANGED clientVars

\* func called reportTokens(n) and returned: process goes on to the debit
TaskReturns(j) ==
  /\ j \in Tasks
  /\ jpc[j] = "running"
  /\ \E n \in 0..MaxTokensUsed : tokensUsed' = [tokensUsed EXCEPT ![j] = n]
  /\ jpc' = [jpc EXCEPT ![j] = "debit"]
  /\ UNCHANGED <<maxRequestsPerMinute, maxTokensPerMinute, reqReservoir, tokReservoir,
                 reqQueue, tokQueue, jmodel, historyVars>>
  /\ UNCHANGED clientVars

\* func called reportTokens(n) and then threw: the await rethrows, so
\* process leaves without reaching incrementReservoir
TaskThrows(j) ==
  /\ j \in Tasks
  /\ jpc[j] = "running"
  /\ \E n \in 0..MaxTokensUsed : tokensUsed' = [tokensUsed EXCEPT ![j] = n]
  /\ jpc' = [jpc EXCEPT ![j] = "threw"]
  /\ UNCHANGED <<maxRequestsPerMinute, maxTokensPerMinute, reqReservoir, tokReservoir,
                 reqQueue, tokQueue, jmodel, historyVars>>
  /\ UNCHANGED clientVars

\* both reservoirs of a model are created together with the same 60 s
\* interval: a window boundary at which the two refreshes fall together
RefreshWindow(m) ==
  /\ reqReservoir' = [reqReservoir EXCEPT ![m] = reqCapacity(m)]
  /\ tokReservoir' = [tokReservoir EXCEPT ![m] = tokCapacity(m)]
  /\ reqAdmitted' = [reqAdmitted EXCEPT ![m] = 0]
  /\ tokAdmitted' = [tokAdmitted EXCEPT ![m] = 0]
  /\ UNCHANGED <<maxRequestsPerMinute, maxTokensPerMinute, reqQueue, tokQueue, jpc, jmodel,
                 tokensUsed, netDebit>>
  /\ UNCHANGED clientVars

\* the steps Bottleneck takes on its own
LimiterStep ==
  \/ \E m \in Models : TakeRequest(m)
  \/ \E m \in Models : TakeToken(m)
  \/ \E j \in Jobs : IncrementReservoir(j)
  \/ \E m \in Models : RefreshRequests(m)
  \/ \E m \in Models : RefreshTokens(m)

NextLimiter ==
  \/ LimiterStep
  \/ \E j \in Tasks : TaskProcess(j, DefaultModel)
  \/ \E j \in Tasks : TaskReturns(j)
  \/ \E j \in Tasks : TaskThrows(j)

\* the limiter with both refreshes of a model falling on the same instant
NextWindows ==
  \/ \E m \in Models : TakeRequest(m)
  \/ \E m \in Models : TakeToken(m)
  \/ \E j \in Jobs : IncrementReservoir(j)
  \/ \E m \in Models : RefreshWindow(m)
  \/ \E j \in Tasks : TaskProcess(j, DefaultModel)
  \/ \E j \in Tasks : TaskReturns(j)
  \/ \E j \in Tasks : TaskThrows(j)

\* a Prompt constructed with messageData: the constructor renders the messages
\* from it and no call is in flight
InitOverlap ==
  /\ chain = MessageData
  /\ callPc = [i \in Invocations |-> "idle"]
  /\ callData = [i \in Invocations |-> MessageData]
  /\ callRetries = [i \in Invocations |-> 0]
  /\ sentFrom = [i \in Invocations |-> {}]
  /\ alone = [i \in Invocations |-> TRUE]

InitDocument ==
  /\ dpc = "idle"
  /\ settings = [dryrun |-> FALSE, progress |-> FALSE]
  /\ excerpts = <<>>
  /\ totalTextTokenLength = 0
  /\ index = 0
  /\ count = 0
  /\ docTokensSent = 0
  /\ docTokensReceived = 0
  /\ docCost = 0
  /\ docResponse = Undefined
  /\ currentTokenCount = 0
  /\ docResult = Undefined
  /\ submitted = <<>>
  /\ finished = 0
  /\ logged = 0
  /\ stoppedAt = 0
  /\ lastResponse = Undefined
  /\ loggedKinds = {}
  /\ consumed = [tokensSent |-> 0, tokensReceived |-> 0, cost |-> 0]

Init ==
  /\ InitLimiter
  /\ InitPrompt
  /\ InitDocument
  /\ InitOverlap

\* the targeted model configured with the largest limits
InitLargest ==
  /\ InitLimiter
  /\ maxRequestsPerMinute[DefaultModel] = MaxLimit
  /\ maxTokensPerMinute[DefaultModel] = MaxLimit
  /\ InitPrompt
  /\ InitDocument
  /\ InitOverlap

\* concurrent callers of RateLimiter.process on one model's limiter
SpecLimiter == Init /\ [][NextLimiter]_vars

SpecWindows == Init /\ [][NextWindows]_vars

\* the first call of a caller
FirstProcess(j, m) ==
  /\ jpc[j] = "idle"
  /\ TaskProcess(j, m)

\* callers that target either model, one call each: rateLimiters[modelName],
\* llm.js 40-43
NextModels ==
  \/ LimiterStep
  \/ \E j \in Tasks, m \in Models : FirstProcess(j, m)
  \/ \E j \in Tasks : TaskReturns(j)
  \/ \E j \in Tasks : TaskThrows(j)

\* the targeted model configured with the largest limits, every other model
\* with the limit 2, that is with reservoirs of 1
InitModels ==
  /\ maxRequestsPerMinute = [m \in Models |-> IF m = DefaultModel THEN MaxLimit ELSE 2]
  /\ maxTokensPerMinute = [m \in Models |-> IF m = DefaultModel THEN MaxLimit ELSE 2]
  /\ Constructed
  /\ InitPrompt
  /\ InitDocument
  /\ InitOverlap

SpecModels == InitModels /\ [][NextModels]_vars

(***************************************************************************)
(* Prompt.call(data, retries, retryDelay) on a Prompt of DefaultModel      *)
(***************************************************************************)
\* limiter state a step of the call leaves alone unless it says otherwise
limiterState == <<maxRequestsPerMinute, maxTokensPerMinute, reqReservoir, tokReservoir,
                  reqQueue, tokQueue, jmodel, reqAdmitted, tokAdmitted, netDebit>>

\* data.responseTokenLength, NaN standing for a missing (undefined) field
responseTokenLength(d) ==
  IF "responseTokenLength" \in DOMAIN d THEN d.responseTokenLength ELSE NaN

\* a budget check that also rejects a prompt that exactly fills the window
OverBudget_Inclusive(remainingTokenCount) == remainingTokenCount <= 0

\* if (remainingTokenCount < 0)
OverBudget(remainingTokenCount) == remainingTokenCount < 0

\* lines 233-235: the running totals after a completion of n tokens
Completed(sent, received, c, tc, n) ==
  [tokensSent |-> sent + tc,
   tokensReceived |-> received + n,
   cost |-> c + calculateCost(SharedModel(DefaultModel), sent + tc, received + n)]

\* lines 110-122: what the repair task returns for the coerced value v of
\* n tokens
RepairResult(v, promptTokens, n) ==
  [data |-> v,
   tokensSent |-> Round110(promptTokens),
   tokensReceived |-> n,
   cost |-> calculateCost(ParserModel(DefaultModel), Round110(promptTokens), n)]

\* lines 241-250: what the task returns
TaskResult(sent, received, c, parsed) ==
  [response |-> parsed.data,
   tokensSent |-> sent + FieldOrZero(parsed, "tokensSent"),
   tokensReceived |-> received + FieldOrZero(parsed, "tokensReceived"),
   cost |-> c + FieldOrZero(parsed, "cost")]

\* lines 196-226: measure the prompt, check the budget, answer a dry run;
\* tc is what countTokens(promptData) measures for this data
Call(d, n, tc) ==
  /\ data' = d
  /\ maxRetries' = n
  /\ tokenCount' = tc
  /\ rawResponse' = Undefined
  /\ parsedResponse' = Undefined
  /\ response' = Undefined
  /\ attempts' = 0
  /\ completions' = 0
  /\ parses' = 0
  /\ failures' = 0
  /\ sleeps' = 0
  /\ LET model == SharedModel(DefaultModel)
         remainingTokenCount == model.maxTokens - tc
     IN IF OverBudget(remainingTokenCount)
          THEN /\ retries' = 0
               /\ tokensSent' = 0
               /\ tokensReceived' = 0
               /\ cost' = 0
               /\ result' = Undefined
               /\ error' = [kind |-> "budget", attempt |-> 0]
               /\ ppc' = "threw"
          ELSE IF d.dryrun
            THEN LET sent == 0 + tc
                     received == 0 + OrElse(responseTokenLength(d), model.maxTokens - sent)
                     c == 0 + calculateCost(model, sent, received)
                 IN /\ retries' = n
                    /\ tokensSent' = sent
                    /\ tokensReceived' = received
                    /\ cost' = c
                    /\ result' = [tokensSent |-> sent, tokensReceived |-> received, cost |-> c]
                    /\ error' = NoError
                    /\ ppc' = "returned"
            ELSE /\ retries' = n
                 /\ tokensSent' = 0
                 /\ tokensReceived' = 0
                 /\ cost' = 0
                 /\ result' = Undefined
                 /\ error' = NoError
                 /\ ppc' = "loop"

\* the arguments a caller may pass
DataValues ==
  {[dryrun |-> d] : d \in BOOLEAN} \cup
  {[dryrun |-> d, responseTokenLength |-> k] : d \in BOOLEAN, k \in 0..MaxResponseLength}
PromptTokenCounts == 1..(MaxContext + 1)

\* a caller invokes prompt.call(data, retries)
PromptCall ==
  /\ ppc = "idle"
  /\ \E d \in DataValues, n \in 0..MaxRetries, tc \in PromptTokenCounts : Call(d, n, tc)
  /\ UNCHANGED <<limiterVars, historyVars>>
  /\ UNCHANGED <<docVars, docHistory, overlapVars>>

\* while (retries > 0): enter this.model.rateLimiter.process, or fall out of
\* the loop and off the end of the function
LoopTest ==
  /\ ppc = "loop"
  /\ IF retries > 0
       THEN /\ Schedule(CallJob, DefaultModel)
            /\ attempts' = attempts + 1
            /\ ppc' = "process"
            /\ UNCHANGED result
       ELSE /\ result' = Undefined
            /\ ppc' = "returned"
            /\ UNCHANGED <<limiterVars, historyVars, attempts>>
  /\ UNCHANGED <<data, maxRetries, tokenCount, retries, tokensSent, tokensReceived, cost,
                 rawResponse, parsedResponse, response, error,
                 completions, parses, failures, sleeps>>
  /\ UNCHANGED <<docVars, docHistory, overlapVars>>

\* lines 231-237: chain.call answers; the closure's running totals grow and
\* their sum is reported to the limiter
Completion ==
  /\ ppc = "process"
  /\ jpc[CallJob] = "running"
  /\ \E text \in {"valid", "fixable", "unfixable"}, n \in 1..MaxReceived :
       LET totals == Completed(tokensSent, tokensReceived, cost, tokenCount, n)
       IN /\ rawResponse' = [text |-> text, tokens |-> n]
          /\ tokensSent' = totals.tokensSent
          /\ tokensReceived' = totals.tokensReceived
          /\ cost' = totals.cost
          /\ tokensUsed' = [tokensUsed EXCEPT ![CallJob] =
                               totals.tokensSent + totals.tokensReceived]
  /\ completions' = completions + 1
  /\ ppc' = "parse"
  /\ UNCHANGED <<limiterState, jpc, data, maxRetries, tokenCount, retries, parsedResponse,
                 response, result, error, attempts, parses, failures, sleeps>>
  /\ UNCHANGED <<docVars, docHistory, overlapVars>>

\* chain.call throws: the task, and with it process, rejects
CompletionThrows ==
  /\ ppc = "process"
  /\ jpc[CallJob] = "running"
  /\ jpc' = [jpc EXCEPT ![CallJob] = "threw"]
  /\ error' = [kind |-> "completion", attempt |-> attempts]
  /\ completions' = completions + 1
  /\ ppc' = "catch"
  /\ UNCHANGED <<limiterState, tokensUsed, data, maxRetries, tokenCount, retries, tokensSent,
                 tokensReceived, cost, rawResponse, parsedResponse, response, result,
                 attempts, parses, failures, sleeps>>
  /\ UNCHANGED <<docVars, docHistory, overlapVars>>

\* JSONParser.parse, lines 104-109: the direct parse succeeds, or its error
\* is caught and the repair task enters the parser model's rate limiter
Parse ==
  /\ ppc = "parse"
  /\ parses' = parses + 1
  /\ IF rawResponse.text = "valid"
       THEN /\ \E v \in ResponseValues : parsedResponse' = [data |-> v]
            /\ ppc' = "parsed"
            /\ UNCHANGED <<limiterVars, historyVars>>
       ELSE /\ Schedule(RepairJob, ParserModel(DefaultModel).modelName)
            /\ ppc' = "repair"
            /\ UNCHANGED parsedResponse
  /\ UNCHANGED <<data, maxRetries, tokenCount, retries, tokensSent, tokensReceived, cost,
                 rawResponse, response, result, error,
                 attempts, completions, failures, sleeps>>
  /\ UNCHANGED <<docVars, docHistory, overlapVars>>

\* lines 110-122: the repair pass coerces the text; it reports tokensSent
\* (reportTokens keeps its first argument only)
Repair ==
  /\ ppc = "repair"
  /\ jpc[RepairJob] = "running"
  /\ rawResponse.text = "fixable"
  /\ \E v \in ResponseValues, n \in 1..MaxReceived :
       LET res == RepairResult(v, tokensSent, n)
       IN /\ parsedResponse' = res
          /\ tokensUsed' = [tokensUsed EXCEPT ![RepairJob] = res.tokensSent]
  /\ jpc' = [jpc EXCEPT ![RepairJob] = "debit"]
  /\ ppc' = "repairing"
  /\ UNCHANGED <<limiterState, data, maxRetries, tokenCount, retries, tokensSent,
                 tokensReceived, cost, rawResponse, response, result, error, promptHistory>>
  /\ UNCHANGED <<docVars, docHistory, overlapVars>>

\* the repair pass fails too: the error leaves parse, the task and process
RepairThrows ==
  /\ ppc = "repair"
  /\ jpc[RepairJob] = "running"
  /\ rawResponse.text = "unfixable"
  /\ jpc' = [jpc EXCEPT ![RepairJob] = "threw", ![CallJob] = "threw"]
  /\ error' = [kind |-> "parse", attempt |-> attempts]
  /\ ppc' = "catch"
  /\ UNCHANGED <<limiterState, tokensUsed, data, maxRetries, tokenCount, retries, tokensSent,
                 tokensReceived, cost, rawResponse, parsedResponse, response, result,
                 promptHistory>>
  /\ UNCHANGED <<docVars, docHistory, overlapVars>>

\* lines 123-128: the repair's process has returned; res.parserFixed = true
Repaired ==
  /\ ppc = "repairing"
  /\ jpc[RepairJob] = "returned"
  /\ parsedResponse' = [data |-> parsedResponse.data,
                        tokensSent |-> parsedResponse.tokensSent,
                        tokensReceived |-> parsedResponse.tokensReceived,
                        cost |-> parsedResponse.cost,
                        parserFixed |-> TRUE]
  /\ ppc' = "parsed"
  /\ UNCHANGED <<limiterVars, historyVars, data, maxRetries, tokenCount, retries, tokensSent,
                 tokensReceived, cost, rawResponse, response, result, error, promptHistory>>
  /\ UNCHANGED <<docVars, docHistory, overlapVars>>

\* lines 241-250: add what the parser spent and return from the task
TaskDone ==
  /\ ppc = "parsed"
  /\ LET res == TaskResult(tokensSent, tokensReceived, cost, parsedResponse)
     IN /\ tokensSent' = res.tokensSent
        /\ tokensReceived' = res.tokensReceived
        /\ cost' = res.cost
        /\ response' = res
  /\ jpc' = [jpc EXCEPT ![CallJob] = "debit"]
  /\ ppc' = "debit"
  /\ UNCHANGED <<limiterState, tokensUsed, data, maxRetries, tokenCount, retries,
                 rawResponse, parsedResponse, result, error, promptHistory>>
  /\ UNCHANGED <<docVars, docHistory, overlapVars>>

\* line 253: process has returned; return response
Return ==
  /\ ppc = "debit"
  /\ jpc[CallJob] = "returned"
  /\ result' = response
  /\ ppc' = "returned"
  /\ UNCHANGED <<limiterVars, historyVars, data, maxRetries, tokenCount, retries, tokensSent,
                 tokensReceived, cost, rawResponse, parsedResponse, response, error,
                 promptHistory>>
  /\ UNCHANGED <<docVars, docHistory, overlapVars>>

\* a catch block that gives up at the first error
Catch_NoRetry ==
  /\ ppc = "catch"
  /\ retries' = retries - 1
  /\ failures' = failures + 1
  /\ ppc' = "threw"
  /\ UNCHANGED sleeps
  /\ UNCHANGED <<limiterVars, historyVars, data, maxRetries, tokenCount, tokensSent,
                 tokensReceived, cost, rawResponse, parsedResponse, response, result, error,
                 attempts, completions, parses>>
  /\ UNCHANGED <<docVars, docHistory, overlapVars>>

\* lines 254-259: retries--; rethrow at zero, else await Delay(retryDelay)
Catch ==
  /\ ppc = "catch"
  /\ retries' = retries - 1
  /\ failures' = failures + 1
  /\ IF retries - 1 = 0
       THEN ppc' = "threw" /\ UNCHANGED sleeps
       ELSE ppc' = "sleep" /\ sleeps' = sleeps + 1
  /\ UNCHANGED <<limiterVars, historyVars, data, maxRetries, tokenCount, tokensSent,
                 tokensReceived, cost, rawResponse, parsedResponse, response, result, error,
                 attempts, completions, parses>>
  /\ UNCHANGED <<docVars, docHistory, overlapVars>>

\* the delay is over: back to the loop test
Wake ==
  /\ ppc = "sleep"
  /\ ppc' = "loop"
  /\ UNCHANGED <<limiterVars, historyVars, data, maxRetries, tokenCount, retries, tokensSent,
                 tokensReceived, cost, rawResponse, parsedResponse, response, result, error,
                 promptHistory>>
  /\ UNCHANGED <<docVars, docHistory, overlapVars>>

\* the steps of one Prompt.call after its entry
PromptStep ==
  \/ LoopTest
  \/ Completion
  \/ CompletionThrows
  \/ Parse
  \/ Repair
  \/ RepairThrows
  \/ Repaired
  \/ TaskDone
  \/ Return
  \/ Catch
  \/ Wake

NextPrompt ==
  \/ PromptCall
  \/ PromptStep
  \/ LimiterStep

\* one caller of Prompt.call at a time, going through the model's limiter
SpecPrompt == InitLargest /\ [][NextPrompt]_vars

\* a real call whose prompt fits the window, allowed a first attempt and one
\* retry
RealPromptCall ==
  /\ ppc = "idle"
  /\ Call([dryrun |-> FALSE], 2, 1)
  /\ UNCHANGED <<limiterVars, historyVars>>
  /\ UNCHANGED <<docVars, docHistory, overlapVars>>

\* the caller that shares the limiter with the call and its repair pass
OtherCaller == 1

\* one Prompt.call, with its repair pass, and another caller of the same
\* limiter, which enters process once
NextLive ==
  \/ RealPromptCall
  \/ PromptStep
  \/ LimiterStep
  \/ FirstProcess(OtherCaller, DefaultModel)
  \/ \E j \in Tasks : TaskReturns(j)
  \/ \E j \in Tasks : TaskThrows(j)

\* the tightest limiter that admits at all: each reservoir refills to 1, so
\* every admission after the first has to wait for a later window
InitLive ==
  /\ Init
  /\ reqCapacity(DefaultModel) = 1
  /\ tokCapacity(DefaultModel) = 1

\* the steps that do not wait for a caller: Bottleneck's timers and queues,
\* the termination of a running task, the resumption of an awaited step of
\* call
LiveStep ==
  \/ LimiterStep
  \/ PromptStep
  \/ \E j \in Tasks : TaskReturns(j)
  \/ \E j \in Tasks : TaskThrows(j)

\* the event loop does not stop while such a step is ready; callers are not
\* obliged to call
Fairness == WF_vars(LiveStep)

SpecLive == InitLive /\ [][NextLive]_vars /\ Fairness

(***************************************************************************)
(* Prompt.call invocations that overlap on one Prompt instance.  The       *)
(* lodash templates of the messages are rendered from the data given to    *)
(* setMessages; chain holds the data the current this.chain was built from *)
(***************************************************************************)
calledVars == <<limiterVars, historyVars, promptVars, promptHistory, docVars, docHistory>>

InFlightCalls == {i \in Invocations : callPc[i] \notin {"idle", "returned", "threw"}}

\* setMessages(this.messageText, d): this.messages, this.promptTemplate and,
\* through setModel, this.chain are rebuilt from d
setMessages(d) == chain' = d

\* call(data, retries): promptData(data) and countTokens(promptData) both run
\* setMessages with this call's data, then countTokens formats this.chain.prompt
\* and suspends
InvokeCall(i, d, n) ==
  /\ callPc[i] \in {"idle", "returned", "threw"}
  /\ callData' = [callData EXCEPT ![i] = d]
  /\ callRetries' = [callRetries EXCEPT ![i] = n]
  /\ setMessages(d)
  /\ callPc' = [callPc EXCEPT ![i] = "countTokens"]
  /\ sentFrom' = [sentFrom EXCEPT ![i] = {}]
  /\ alone' = [k \in Invocations |->
                IF k = i THEN InFlightCalls = {}
                ELSE IF k \in InFlightCalls THEN FALSE ELSE alone[k]]
  /\ UNCHANGED calledVars

\* countTokens resolved: over budget throws; otherwise setMessages runs again,
\* a dry run counts once more and suspends, a real call enters the loop and
\* suspends in rateLimiter.process (or leaves at once with retries = 0)
InvokeCounted(i) ==
  /\ callPc[i] = "countTokens"
  /\ \/ /\ callPc' = [callPc EXCEPT ![i] = "threw"]
        /\ UNCHANGED chain
     \/ /\ setMessages(callData[i])
        /\ \E dryrun \in BOOLEAN :
             callPc' = [callPc EXCEPT ![i] =
                          IF dryrun THEN "dryrun"
                          ELSE IF callRetries[i] > 0 THEN "process" ELSE "returned"]
  /\ UNCHANGED <<callData, callRetries, sentFrom, alone, calledVars>>

\* the dry run's countTokens resolved: the estimate is returned
InvokeDryReturn(i) ==
  /\ callPc[i] = "dryrun"
  /\ callPc' = [callPc EXCEPT ![i] = "returned"]
  /\ UNCHANGED <<chain, callData, callRetries, sentFrom, alone, calledVars>>

\* the limiter starts the task: this.chain.call(promptData) sends the messages
\* of whatever chain the instance holds at this moment
InvokeTask(i) ==
  /\ callPc[i] = "process"
  /\ sentFrom' = [sentFrom EXCEPT ![i] = @ \cup {chain}]
  /\ callPc' = [callPc EXCEPT ![i] = "completion"]
  /\ UNCHANGED <<chain, callData, callRetries, alone, calledVars>>

\* catch (error): retries--, rethrow at 0, else Delay(retryDelay)
InvokeCatch(i) ==
  /\ callRetries' = [callRetries EXCEPT ![i] = @ - 1]
  /\ callPc' = [callPc EXCEPT ![i] = IF callRetries[i] - 1 = 0 THEN "threw" ELSE "delay"]

\* chain.call resolved: countTokens(promptData) runs setMessages with this
\* call's data and suspends; the counts and the parse follow
InvokeCompletion(i) ==
  /\ callPc[i] = "completion"
  /\ setMessages(callData[i])
  /\ callPc' = [callPc EXCEPT ![i] = "parse"]
  /\ UNCHANGED <<callData, callRetries, sentFrom, alone, calledVars>>

\* chain.call rejected
InvokeCompletionThrows(i) ==
  /\ callPc[i] = "completion"
  /\ InvokeCatch(i)
  /\ UNCHANGED <<chain, callData, sentFrom, alone, calledVars>>

\* the task resolved: call returns its result
InvokeReturn(i) ==
  /\ callPc[i] = "parse"
  /\ callPc' = [callPc EXCEPT ![i] = "returned"]
  /\ UNCHANGED <<chain, callData, callRetries, sentFrom, alone, calledVars>>

\* the parse and its repair rejected
InvokeParseThrows(i) ==
  /\ callPc[i] = "parse"
  /\ InvokeCatch(i)
  /\ UNCHANGED <<chain, callData, sentFrom, alone, calledVars>>

\* Delay(retryDelay) elapsed: the loop enters rateLimiter.process again
InvokeWake(i) ==
  /\ callPc[i] = "delay"
  /\ callPc' = [callPc EXCEPT ![i] = "process"]
  /\ UNCHANGED <<chain, callData, callRetries, sentFrom, alone, calledVars>>

NextOverlap ==
  \/ \E i \in Invocations, d \in CallInputs, n \in 0..MaxRetries : InvokeCall(i, d, n)
  \/ \E i \in Invocations : InvokeCounted(i)
  \/ \E i \in Invocations : InvokeDryReturn(i)
  \/ \E i \in Invocations : InvokeTask(i)
  \/ \E i \in Invocations : InvokeCompletion(i)
  \/ \E i \in Invocations : InvokeCompletionThrows(i)
  \/ \E i \in Invocations : InvokeReturn(i)
  \/ \E i \in Invocations : InvokeParseThrows(i)
  \/ \E i \in Invocations : InvokeWake(i)

SpecOverlap == InitLargest /\ [][NextOverlap]_vars

(***************************************************************************)
(* The retry loop of Prompt.call as a function: every way lines 228-261    *)
(* can end for a prompt of tc tokens, the rate limiter (which only delays  *)
(* the attempts) left out.                                                 *)
(***************************************************************************)
RECURSIVE AttemptOutcomes(_, _, _, _, _, _)
\* the loop is about to make attempt number a with left retries remaining
\* (left > 0) and the running totals sent, received, c
AttemptOutcomes(tc, a, left, sent, received, c) ==
  LET Failed(kind, s2, r2, c2) ==
        IF left - 1 = 0
          THEN {[kind |-> "threw", error |-> [kind |-> kind, attempt |-> a],
                 tokensSent |-> s2, tokensReceived |-> r2, cost |-> c2]}
          ELSE AttemptOutcomes(tc, a + 1, left - 1, s2, r2, c2)
      Answered(n) ==
        LET t == Completed(sent, received, c, tc, n)
        IN UNION {
             \* the text parses
             {[kind |-> "returned",
               result |-> TaskResult(t.tokensSent, t.tokensReceived, t.cost, [data |-> v])]
                : v \in ResponseValues},
             \* the text is repaired
             {[kind |-> "returned",
               result |-> TaskResult(t.tokensSent, t.tokensReceived, t.cost,
                                     RepairResult(v, t.tokensSent, q))]
                : v \in ResponseValues, q \in 1..MaxReceived},
             \* the repair fails
             Failed("parse", t.tokensSent, t.tokensReceived, t.cost)}
  IN UNION ({Failed("completion", sent, received, c)}
              \cup {Answered(n) : n \in 1..MaxReceived})

\* the outcomes of the loop entered with retries = n
LoopOutcomes(tc, n) ==
  IF n > 0
    THEN AttemptOutcomes(tc, 1, n, 0, 0, 0)
    ELSE {[kind |-> "returned", result |-> Undefined]}

\* call(data, retries=5, ...): the retries of a call that passes none
DefaultRetries == 5

\* LoopOutcomes for every prompt within the budget and every number of
\* retries up to the default
OutcomeTable ==
  [tc \in 0..MaxContext, n \in 0..DefaultRetries |-> LoopOutcomes(tc, n)]

\* every way the call that is at position ppc can end for the caller that
\* awaits it: Call has answered already (budget error, dry run) or the retry
\* loop is still to run
CallOutcomes ==
  CASE ppc = "loop" -> OutcomeTable[tokenCount, retries]
    [] ppc = "returned" -> {[kind |-> "returned", result |-> result]}
    [] ppc = "threw" -> {[kind |-> "threw", error |-> error, tokensSent |-> tokensSent,
                          tokensReceived |-> tokensReceived, cost |-> cost]}
    [] OTHER -> {}

\* the call is over and its caller has taken the outcome: nothing of the
\* invocation is left
PromptOver ==
  /\ ppc' = "idle"
  /\ data' = [dryrun |-> FALSE]
  /\ maxRetries' = 0
  /\ tokenCount' = 0
  /\ retries' = 0
  /\ tokensSent' = 0
  /\ tokensReceived' = 0
  /\ cost' = 0
  /\ rawResponse' = Undefined
  /\ parsedResponse' = Undefined
  /\ response' = Undefined
  /\ result' = Undefined
  /\ error' = NoError

(***************************************************************************)
(* TextSplitter.splitText                                                  *)
(***************************************************************************)
Min(a, b) == IF a < b THEN a ELSE b

\* Math.round(num / den * 100) for num >= 0, den > 0
RoundPercent(num, den) == (200 * num + den) \div (2 * den)

\* TokenTextSplitter (a dependency): a window of chunkSize tokens moved
\* forward by chunkSize - chunkOverlap tokens until it leaves the text;
\* the result is the sequence of the chunks' token lengths
ChunkLengths(textTokens, chunkSize, chunkOverlap) ==
  LET step == chunkSize - chunkOverlap
      n == (textTokens + step - 1) \div step
  IN [i \in 1..n |-> Min(chunkSize, textTokens - (i - 1) * step)]

\* splitText, lines 350-375, for a text of textTokens > 0 tokens
splitText(textTokens, chunkSize, chunkOverlap) ==
  LET chunks == ChunkLengths(textTokens, chunkSize, chunkOverlap)
      total == textTokens + chunkOverlap * Len(chunks)
  IN [totalTextTokenLength |-> total,
      excerpts |-> [i \in 1..Len(chunks) |->
                      [excerpt |-> i,
                       excerptTokenLength |-> chunks[i],
                       excerptPercentageLength |-> RoundPercent(chunks[i], total)]]]

(***************************************************************************)
(* DocumentPrompt.call(text, settings)                                     *)
(***************************************************************************)
\* responseTokenLength the DocumentPrompt was constructed with
DocResponseTokenLength == MaxResponseLength

\* settings.chunkOverlap: none (the default) or one token, below ChunkSize
Overlaps == {0, 1}

\* JSON.stringify of a response value
JSONstringify(v) == [json |-> v.str]

\* lines 458-471: split the text and set the running totals to zero
DocumentCall ==
  /\ dpc = "idle"
  /\ \E textTokens \in 1..MaxDocTokens, chunkOverlap \in Overlaps,
        dryrun \in BOOLEAN, progress \in BOOLEAN :
       LET split == splitText(textTokens, ChunkSize, chunkOverlap)
       IN /\ excerpts' = split.excerpts
          /\ totalTextTokenLength' = split.totalTextTokenLength
          /\ settings' = [dryrun |-> dryrun, progress |-> progress]
  /\ index' = 0
  /\ count' = 0
  /\ docTokensSent' = 0
  /\ docTokensReceived' = 0
  /\ docCost' = 0
  /\ docResponse' = Undefined
  /\ currentTokenCount' = 0
  /\ dpc' = "iterate"
  /\ UNCHANGED <<docResult, docHistory, limiterVars, historyVars, overlapVars, promptVars, promptHistory>>

\* lines 475-487: the arguments for the excerpt at position i
Args(i) ==
  [dryrun |-> settings.dryrun,
   responseTokenLength |-> DocResponseTokenLength,
   excerpt |-> i,
   response |-> IF Truthy(docResponse) THEN JSONstringify(docResponse) ELSE Undefined]

\* prompt.countTokens(args): the rendered prompt holds the excerpt and, once
\* there is one, the prior response (one more token); the fixed framing is
\* left out of the count
PromptTokens(args) ==
  excerpts[args.excerpt].excerptTokenLength + (IF args.response = Undefined THEN 0 ELSE 1)

\* a loop body that does not await prompt.call before it goes on
SubmitExcerpt_NoAwait ==
  /\ dpc \in {"iterate", "calling"}
  /\ ~settings.dryrun
  /\ index < Len(excerpts)
  /\ index' = index + 1
  /\ Call(Args(index + 1), DefaultRetries, PromptTokens(Args(index + 1)))
  /\ submitted' = Append(submitted, index + 1)
  /\ dpc' = "calling"
  /\ UNCHANGED <<settings, excerpts, totalTextTokenLength, count, docTokensSent,
                 docTokensReceived, docCost, docResponse, currentTokenCount, docResult,
                 finished, logged, stoppedAt, lastResponse, loggedKinds, consumed,
                 limiterVars, historyVars, overlapVars>>

\* lines 473-495: the loop takes the next excerpt and awaits
\* this.prompt.call(args); tc is the token count of the rendered prompt
SubmitExcerpt ==
  /\ dpc = "iterate"
  /\ ~settings.dryrun
  /\ index < Len(excerpts)
  /\ index' = index + 1
  /\ Call(Args(index + 1), DefaultRetries, PromptTokens(Args(index + 1)))
  /\ submitted' = Append(submitted, index + 1)
  /\ dpc' = "calling"
  /\ UNCHANGED <<settings, excerpts, totalTextTokenLength, count, docTokensSent,
                 docTokensReceived, docCost, docResponse, currentTokenCount, docResult,
                 finished, logged, stoppedAt, lastResponse, loggedKinds, consumed,
                 limiterVars, historyVars, overlapVars>>

\* the object DocumentPrompt.call returns, lines 522-527
Returned ==
  [response |-> docResponse, cost |-> docCost, tokensSent |-> docTokensSent,
   tokensReceived |-> docTokensReceived]

\* the for-of loop after the iteration of excerpt i: it takes the next
\* excerpt or, past the last one, the function returns the totals as they are
\* after this step (lines 473 and 522-527)
NextIteration(i) ==
  IF i = Len(excerpts)
    THEN /\ dpc' = "done"
         /\ docResult' = [response |-> docResponse', cost |-> docCost',
                          tokensSent |-> docTokensSent',
                          tokensReceived |-> docTokensReceived']
    ELSE /\ dpc' = "iterate"
         /\ UNCHANGED docResult

\* what follows the if/else of the loop body, lines 503-515
AfterExcerpt(i) ==
  IF settings.progress
    THEN /\ dpc' = "progress"
         /\ UNCHANGED docResult
    ELSE NextIteration(i)

\* lines 495-504: await this.prompt.call(args) resolves with data, one of
\* the outcomes of the call, and the loop body runs on to its next await
ExcerptReturned ==
  /\ dpc = "calling"
  /\ \E o \in CallOutcomes :
       /\ o.kind = "returned"
       /\ docCost' = docCost + FieldOrZero(o.result, "cost")
       /\ docTokensSent' = docTokensSent + FieldOrZero(o.result, "tokensSent")
       /\ docTokensReceived' = docTokensReceived + FieldOrZero(o.result, "tokensReceived")
       /\ docResponse' = IF "response" \in DOMAIN o.result /\ Truthy(o.result.response)
                           THEN o.result.response
                           ELSE docResponse
       /\ lastResponse' = IF "response" \in DOMAIN o.result
                            THEN o.result.response
                            ELSE Undefined
       /\ consumed' = [tokensSent |-> consumed.tokensSent + FieldOrZero(o.result, "tokensSent"),
                       tokensReceived |-> consumed.tokensReceived
                                            + FieldOrZero(o.result, "tokensReceived"),
                       cost |-> consumed.cost + FieldOrZero(o.result, "cost")]
  /\ currentTokenCount' = currentTokenCount + excerpts[index].excerptTokenLength
  /\ count' = count + 1
  /\ finished' = finished + 1
  /\ AfterExcerpt(index)
  /\ PromptOver
  /\ UNCHANGED <<settings, excerpts, totalTextTokenLength, index, submitted,
                 logged, stoppedAt, loggedKinds, limiterVars, historyVars, overlapVars, promptHistory>>

\* a loop whose body has no try/catch: the rejection leaves the function
ExcerptThrew_Propagates ==
  /\ dpc = "calling"
  /\ \E o \in CallOutcomes : o.kind = "threw"
  /\ finished' = finished + 1
  /\ dpc' = "threw"
  /\ PromptOver
  /\ UNCHANGED <<settings, excerpts, totalTextTokenLength, index, count, docTokensSent,
                 docTokensReceived, docCost, docResponse, currentTokenCount, docResult,
                 submitted, logged, stoppedAt, lastResponse, loggedKinds, consumed,
                 limiterVars, historyVars, overlapVars, promptHistory>>

\* lines 517-519: await this.prompt.call(args) rejects; the error is logged
\* and the loop goes on
ExcerptThrew ==
  /\ dpc = "calling"
  /\ \E o \in CallOutcomes :
       /\ o.kind = "threw"
       /\ loggedKinds' = loggedKinds \cup {o.error.kind}
       /\ consumed' = [tokensSent |-> consumed.tokensSent + o.tokensSent,
                       tokensReceived |-> consumed.tokensReceived + o.tokensReceived,
                       cost |-> consumed.cost + o.cost]
  /\ finished' = finished + 1
  /\ logged' = logged + 1
  /\ UNCHANGED <<docTokensSent, docTokensReceived, docCost, docResponse>>
  /\ NextIteration(index)
  /\ PromptOver
  /\ UNCHANGED <<settings, excerpts, totalTextTokenLength, index, count, currentTokenCount,
                 submitted, stoppedAt, lastResponse, limiterVars, historyVars, overlapVars,
                 promptHistory>>

\* lines 489-494 and 503-504: a dry run counts the prompt's tokens instead
EstimateExcerpt ==
  /\ dpc = "iterate"
  /\ settings.dryrun
  /\ index < Len(excerpts)
  /\ index' = index + 1
  /\ LET tc == PromptTokens(Args(index + 1))
         sent == docTokensSent + tc + DocResponseTokenLength
         received == docTokensReceived + tc + DocResponseTokenLength
     IN /\ docTokensSent' = sent
        /\ docTokensReceived' = received
        /\ docCost' = docCost + calculateCost(SharedModel(DefaultModel), sent, received)
  /\ currentTokenCount' = currentTokenCount + excerpts[index + 1].excerptTokenLength
  /\ count' = count + 1
  /\ UNCHANGED docResponse
  /\ AfterExcerpt(index + 1)
  /\ UNCHANGED <<settings, excerpts, totalTextTokenLength,
                 docHistory, limiterVars, historyVars, overlapVars, promptVars, promptHistory>>

\* a loop that takes every answer of the callback as a request to stop
Progress_AlwaysStops ==
  /\ dpc = "progress"
  /\ UNCHANGED <<docTokensSent, docTokensReceived, docCost, docResponse>>
  /\ \E answer \in {"stop", "continue", "throw"} :
       IF answer # "throw"
         THEN /\ stoppedAt' = index
              /\ docResult' = Returned
              /\ dpc' = "done"
              /\ UNCHANGED <<logged, loggedKinds>>
         ELSE /\ logged' = logged + 1
              /\ loggedKinds' = loggedKinds \cup {"progress"}
              /\ NextIteration(index)
              /\ UNCHANGED stoppedAt
  /\ UNCHANGED <<settings, excerpts, totalTextTokenLength, index, count, currentTokenCount,
                 submitted, finished, lastResponse, consumed, limiterVars, historyVars, overlapVars,
                 promptVars, promptHistory>>

\* lines 506-519: await settings.progress(...); 'stop' breaks out of the loop
\* and the function returns; the callback may also throw, which is logged
Progress ==
  /\ dpc = "progress"
  /\ UNCHANGED <<docTokensSent, docTokensReceived, docCost, docResponse>>
  /\ \E answer \in {"stop", "continue", "throw"} :
       CASE answer = "stop" ->
              /\ stoppedAt' = index
              /\ docResult' = Returned
              /\ dpc' = "done"
              /\ UNCHANGED <<logged, loggedKinds>>
         [] answer = "continue" ->
              /\ NextIteration(index)
              /\ UNCHANGED <<stoppedAt, logged, loggedKinds>>
         [] answer = "throw" ->
              /\ logged' = logged + 1
              /\ loggedKinds' = loggedKinds \cup {"progress"}
              /\ NextIteration(index)
              /\ UNCHANGED stoppedAt
  /\ UNCHANGED <<settings, excerpts, totalTextTokenLength, index, count, currentTokenCount,
                 submitted, finished, lastResponse, consumed, limiterVars, historyVars, overlapVars,
                 promptVars, promptHistory>>

NextDocument ==
  \/ DocumentCall
  \/ SubmitExcerpt
  \/ ExcerptReturned
  \/ ExcerptThrew
  \/ EstimateExcerpt
  \/ Progress

\* one run of DocumentPrompt.call; each prompt.call it awaits ends in one of
\* the ways LoopOutcomes gives
SpecDocument == InitLargest /\ [][NextDocument]_vars

(***************************************************************************)
(* The progress figures of DocumentPrompt.call: the loop as far as it      *)
(* decides index and currentTokenCount, for longer documents and any       *)
(* chunkSize                                                               *)
(***************************************************************************)
\* line 475: Math.round(currentTokenCount / totalTextTokenLength * 100)
currentPercentageLength == RoundPercent(currentTokenCount, totalTextTokenLength)

\* line 484: 100 - excerpt.excerptPercentageLength - currentPercentageLength,
\* for the excerpt at position i
remainingPercentageLength(i) ==
  100 - excerpts[i].excerptPercentageLength - currentPercentageLength

\* what the figures' loop leaves alone
figureFrame == <<settings, count, docTokensSent, docTokensReceived, docCost, docResponse,
                 docResult, docHistory, limiterVars, historyVars, overlapVars, promptVars,
                 promptHistory>>

\* lines 458-471: the text is split with the configured chunkSize and
\* chunkOverlap and the running count starts at zero
FiguresCall ==
  /\ dpc = "idle"
  /\ \E textTokens \in 1..MaxTextTokens, chunkSize \in 1..MaxTextTokens,
        chunkOverlap \in Overlaps :
       /\ chunkOverlap < chunkSize
       /\ LET split == splitText(textTokens, chunkSize, chunkOverlap)
          IN /\ excerpts' = split.excerpts
             /\ totalTextTokenLength' = split.totalTextTokenLength
  /\ index' = 0
  /\ currentTokenCount' = 0
  /\ dpc' = "iterate"
  /\ UNCHANGED figureFrame

\* lines 473-504: the figures are built, the excerpt is processed (by
\* prompt.call or by the dry-run estimate) and its tokens are counted
FiguresExcerptDone ==
  /\ dpc = "iterate"
  /\ index < Len(excerpts)
  /\ index' = index + 1
  /\ currentTokenCount' = currentTokenCount + excerpts[index + 1].excerptTokenLength
  /\ dpc' = IF index + 1 = Len(excerpts) THEN "done" ELSE "iterate"
  /\ UNCHANGED <<excerpts, totalTextTokenLength, figureFrame>>

\* lines 517-519: the body threw before line 503; the error is logged and
\* the excerpt's tokens are not counted
FiguresExcerptThrew ==
  /\ dpc = "iterate"
  /\ index < Len(excerpts)
  /\ index' = index + 1
  /\ dpc' = IF index + 1 = Len(excerpts) THEN "done" ELSE "iterate"
  /\ UNCHANGED <<excerpts, totalTextTokenLength, currentTokenCount, figureFrame>>

\* lines 506-515: the excerpt is processed and counted and the progress
\* callback answers 'stop'
FiguresStop ==
  /\ dpc = "iterate"
  /\ index < Len(excerpts)
  /\ index' = index + 1
  /\ currentTokenCount' = currentTokenCount + excerpts[index + 1].excerptTokenLength
  /\ dpc' = "done"
  /\ UNCHANGED <<excerpts, totalTextTokenLength, figureFrame>>

NextFigures ==
  \/ FiguresCall
  \/ FiguresExcerptDone
  \/ FiguresExcerptThrew
  \/ FiguresStop

SpecFigures == InitLargest /\ [][NextFigures]_vars

(***************************************************************************)
(* Claims about RateLimiter (checked under SpecLimiter)                    *)
(***************************************************************************)
Queued == {"reqQueued", "tokQueued"}

\* C1: for every model and each of its two reservoirs, the number of jobs
\* admitted through the reservoir since its last refresh never exceeds the
\* reservoir's capacity floor(limit x bufferPercentage).
C1_AdmittedWithinCapacity ==
  \A m \in Models :
    /\ reqAdmitted[m] <= reqCapacity(m)
    /\ tokAdmitted[m] <= tokCapacity(m)

\* both reservoirs of the targeted model have admitted a full window's worth
\* and a further caller is waiting
C1_Witness ==
  /\ reqCapacity(DefaultModel) >= 1
  /\ tokCapacity(DefaultModel) >= 1
  /\ reqAdmitted[DefaultModel] = reqCapacity(DefaultModel)
  /\ tokAdmitted[DefaultModel] = tokCapacity(DefaultModel)
  /\ reqQueue[DefaultModel] # <<>>

\* C2: a job starts running only from the token queue, which it enters only
\* from the request queue, each time at a step that finds the reservoir >= 1
\* and takes exactly one unit from it; a queued job whose reservoir is
\* exhausted stays queued, and a queued job is never failed.
C2_RunsOnlyAfterBothUnits ==
  [][\A j \in Jobs :
       LET m == jmodel[j] IN
       /\ (jpc[j] # "tokQueued" /\ jpc'[j] = "tokQueued") =>
             /\ jpc[j] = "reqQueued"
             /\ reqReservoir[m] >= 1
             /\ reqReservoir'[m] = reqReservoir[m] - 1
       /\ (jpc[j] # "running" /\ jpc'[j] = "running") =>
             /\ jpc[j] = "tokQueued"
             /\ tokReservoir[m] >= 1
             /\ tokReservoir'[m] = tokReservoir[m] - 1
       /\ (jpc[j] = "reqQueued" /\ reqReservoir[m] < 1) => jpc'[j] = "reqQueued"
       /\ (jpc[j] = "tokQueued" /\ tokReservoir[m] < 1) => jpc'[j] = "tokQueued"
       /\ jpc[j] \in Queued => jpc'[j] # "threw"]_vars

\* one job is running its task while another is suspended on an exhausted
\* request reservoir
C2_Witness ==
  \E j, k \in Jobs :
    /\ jpc[j] = "running"
    /\ jpc[k] = "reqQueued"
    /\ jmodel[j] = jmodel[k]
    /\ reqReservoir[jmodel[k]] < 1

\* C3 (as claimed): once process has returned, what this admission removed
\* from the token reservoir is exactly the token count the task reported.
C3_NetDebitIsReported ==
  \A j \in Jobs : jpc[j] = "returned" => netDebit[j] = tokensUsed[j]

\* what the code does: the unit taken at admission is never given back, so
\* an admission removes the reported count plus one
NetDebitIsReportedPlusOne ==
  \A j \in Jobs : jpc[j] = "returned" => netDebit[j] = tokensUsed[j] + 1

\* C15: if a model's request reservoir or token reservoir has capacity
\* zero, no call of RateLimiter.process for that model ever gets past the
\* queue of that reservoir: its task never runs, it never returns and it
\* never throws, however many refills take place.
C15_ZeroCapacitySuspends ==
  \A j \in Jobs :
    /\ reqCapacity(jmodel[j]) = 0 => jpc[j] \in {"idle", "reqQueued"}
    /\ tokCapacity(jmodel[j]) = 0 => jpc[j] \in {"idle", "reqQueued", "tokQueued"}

\* a caller still waits for a token reservoir of capacity zero, a request
\* refill after its own admission having passed, another caller behind it
C15_Witness ==
  \E i, j \in Tasks :
    /\ i # j
    /\ tokCapacity(jmodel[j]) = 0
    /\ reqCapacity(jmodel[j]) > 0
    /\ jpc[j] = "tokQueued"
    /\ jpc[i] = "tokQueued"
    /\ reqAdmitted[jmodel[j]] = 0
    /\ tokReservoir[jmodel[j]] = 0

\* the reservoirs and queues of model b
Partition(b) == <<reqReservoir[b], tokReservoir[b], reqQueue[b], tokQueue[b]>>

\* C17 (as claimed): within one refill window the tasks that begin to run for
\* a model (tokAdmitted counts them since the window began) never exceed the
\* request reservoir's capacity, tasks admitted by the request reservoir in
\* an earlier window included.
C17_StartsWithinRequestCapacity ==
  \A m \in Models : tokAdmitted[m] <= reqCapacity(m)

\* What the code holds to: per window at most reqCapacity tasks take a request
\* unit and at most tokCapacity tasks begin to run; a task that took its
\* request unit in an earlier window begins to run on top of the tasks the
\* request reservoir admits in this one.
StartsWithinTokenCapacity ==
  \A m \in Models :
    /\ tokAdmitted[m] <= tokCapacity(m)
    /\ reqAdmitted[m] <= reqCapacity(m)


\* C19 (as claimed): the token count a task reported through reportTokens is
\* taken from the model's token reservoir even when the task then throws: the
\* admission of a task that threw lowered the reservoir by at least the count
\* it reported.
C19_ReportedTokensDebitedOnThrow ==
  \A j \in Jobs : jpc[j] = "threw" => netDebit[j] >= tokensUsed[j]

\* What the code holds to: the admission of a task that throws costs the one
\* unit tokenLimiter took to start it, whatever the task reported.
ThrowCostsOneUnit ==
  \A j \in Jobs : jpc[j] = "threw" => netDebit[j] = 1


\* C14: reservoirs are partitioned by model: an admission, a debit or a
\* refill on one model's pair leaves every other model's reservoirs (and
\* queues) as they are, a job's step touches the pair of its own model only,
\* and a caller of one model is admitted whenever that model's own reservoir
\* allows it, whatever the state of the other models' reservoirs.
C14_PartitionedByModel ==
  /\ [][/\ \A a, b \in Models :
             (a # b /\ <<reqReservoir[a], tokReservoir[a]>>' # <<reqReservoir[a], tokReservoir[a]>>)
               => Partition(b)' = Partition(b)
        /\ \A j \in Jobs, b \in Models :
             (jpc'[j] # jpc[j] /\ b # jmodel'[j]) => Partition(b)' = Partition(b)]_vars
  /\ [](\A a \in Models :
          /\ (reqQueue[a] # <<>> /\ reqReservoir[a] >= 1) => ENABLED TakeRequest(a)
          /\ (tokQueue[a] # <<>> /\ tokReservoir[a] >= 1) => ENABLED TakeToken(a))

\* a caller of one model has been admitted and runs while the other model's
\* reservoirs are both exhausted by a caller of that model
C14_Witness ==
  \E a, b \in Models, i, j \in Tasks :
    /\ a # b
    /\ jmodel[i] = a /\ jpc[i] = "running"
    /\ jmodel[j] = b /\ jpc[j] = "returned"
    /\ reqReservoir[b] = 0
    /\ tokReservoir[b] < 0
    /\ reqReservoir[a] = reqCapacity(a) - 1
    /\ tokReservoir[a] = tokCapacity(a) - 1

(***************************************************************************)
(* Claims about Prompt.call (checked under SpecPrompt)                     *)
(***************************************************************************)
\* the call is inside one attempt: between entering process and its outcome
InAttempt == {"process", "parse", "repair", "repairing", "parsed", "debit"}
\* the call is a real (non-dry-run) call that passed the budget check
RealCall == ppc # "idle" /\ ~data.dryrun /\ tokenCount <= maxTokens(DefaultModel)

\* the step-by-step call ends only in ways LoopOutcomes gives
LoopOutcomesCoverCall ==
  /\ (RealCall /\ ppc = "returned") =>
        [kind |-> "returned", result |-> result] \in LoopOutcomes(tokenCount, maxRetries)
  /\ (RealCall /\ ppc = "threw") =>
        [kind |-> "threw", error |-> error, tokensSent |-> tokensSent,
         tokensReceived |-> tokensReceived, cost |-> cost]
          \in LoopOutcomes(tokenCount, maxRetries)

\* C4: with maxRetries = n >= 1, chain.call is invoked at most n times; every
\* caught error takes exactly one attempt (retries = n - failures); every
\* attempt is a fresh admission with its own completion, preceded by one
\* sleep per earlier failure; the call throws only after n failures and
\* throws the error of attempt n.
C4_RetryLoop ==
  (RealCall /\ maxRetries >= 1) =>
    /\ completions <= maxRetries
    /\ attempts <= maxRetries
    /\ retries = maxRetries - failures
    /\ ppc = "loop" => attempts = failures /\ sleeps = failures /\ completions = attempts
    /\ ppc = "process" => attempts = failures + 1 /\ sleeps = failures
                            /\ completions = attempts - 1
    /\ ppc \in InAttempt \ {"process"} =>
          attempts = failures + 1 /\ sleeps = failures /\ completions = attempts
    /\ ppc = "catch" => attempts = failures + 1 /\ error.attempt = attempts
                          /\ completions = attempts
    /\ ppc = "sleep" => retries > 0 /\ attempts = failures /\ sleeps = failures
    /\ ppc = "returned" => failures < maxRetries /\ "response" \in DOMAIN result
    /\ ppc = "threw" => /\ failures = maxRetries
                          /\ attempts = maxRetries
                          /\ sleeps = maxRetries - 1
                          /\ error.kind \in {"completion", "parse"}
                          /\ error.attempt = maxRetries

\* every attempt failed, the last one in the parse step after its repair pass
C4_Witness ==
  /\ ppc = "threw"
  /\ maxRetries = MaxRetries
  /\ failures = MaxRetries
  /\ error = [kind |-> "parse", attempt |-> MaxRetries]

\* C5: the call fails with the budget error exactly when the measured token
\* count is greater than maxTokens, and then at once: no admission, no
\* completion, no parse, no sleep, whatever retries and dryrun are.
C5_BudgetExceeded ==
  /\ (ppc # "idle" /\ tokenCount > maxTokens(DefaultModel)) =>
        /\ ppc = "threw"
        /\ error.kind = "budget"
        /\ attempts = 0 /\ completions = 0 /\ parses = 0 /\ failures = 0 /\ sleeps = 0
        /\ jpc[CallJob] = "idle" /\ jpc[RepairJob] = "idle"
  /\ (ppc # "idle" /\ tokenCount <= maxTokens(DefaultModel)) => error.kind # "budget"

\* a dry run with the largest retries argument is refused for its budget
C5_Witness ==
  /\ ppc = "threw"
  /\ error.kind = "budget"
  /\ tokenCount = maxTokens(DefaultModel) + 1
  /\ data.dryrun
  /\ maxRetries = MaxRetries

\* C6 (as claimed): the result of a successful real call has
\* cost = tokensSent x tokenTxPrice + tokensReceived x tokensRxPrice, all
\* three fields non-negative.
C6_CostMatchesTokens ==
  (RealCall /\ ppc = "returned" /\ "response" \in DOMAIN result) =>
    /\ result.tokensSent >= 0
    /\ result.tokensReceived >= 0
    /\ result.cost >= 0
    /\ result.cost = calculateCost(SharedModel(DefaultModel), result.tokensSent,
                                   result.tokensReceived)

\* what the code does hold to: the formula is right when the first attempt
\* succeeds without the repair pass
CostMatchesOnCleanFirstAttempt ==
  (RealCall /\ ppc = "returned" /\ "response" \in DOMAIN result
     /\ failures = 0 /\ "parserFixed" \notin DOMAIN parsedResponse) =>
    result.cost = calculateCost(SharedModel(DefaultModel), result.tokensSent,
                                result.tokensReceived)

\* C7 (as claimed): a dry run within budget returns without admission,
\* completion or parse; tokensSent is the measured count, tokensReceived the
\* declared responseTokenLength if given and maxTokens - tokensSent
\* otherwise, cost = calculateCost(tokensSent, tokensReceived) >= 0.
C7_DryRunEstimate ==
  (ppc # "idle" /\ data.dryrun /\ tokenCount <= maxTokens(DefaultModel)) =>
    /\ ppc = "returned"
    /\ attempts = 0 /\ completions = 0 /\ parses = 0
    /\ jpc[CallJob] = "idle" /\ jpc[RepairJob] = "idle"
    /\ DOMAIN result = {"tokensSent", "tokensReceived", "cost"}
    /\ result.tokensSent = tokenCount
    /\ result.tokensReceived =
          (IF "responseTokenLength" \in DOMAIN data
             THEN data.responseTokenLength
             ELSE maxTokens(DefaultModel) - result.tokensSent)
    /\ result.cost = calculateCost(SharedModel(DefaultModel), result.tokensSent,
                                   result.tokensReceived)
    /\ result.cost >= 0

\* what the code does hold to: a declared length of 0 counts as not given
DryRunEstimateUnlessZero ==
  (ppc # "idle" /\ data.dryrun /\ tokenCount <= maxTokens(DefaultModel)) =>
    /\ ppc = "returned"
    /\ attempts = 0 /\ completions = 0 /\ parses = 0
    /\ jpc[CallJob] = "idle" /\ jpc[RepairJob] = "idle"
    /\ result.tokensSent = tokenCount
    /\ result.tokensReceived =
          (IF "responseTokenLength" \in DOMAIN data /\ data.responseTokenLength # 0
             THEN data.responseTokenLength
             ELSE maxTokens(DefaultModel) - result.tokensSent)
    /\ result.cost = calculateCost(SharedModel(DefaultModel), result.tokensSent,
                                   result.tokensReceived)
    /\ result.cost >= 0

\* JSONParser.parse leaves its direct parse, its repair pass, or returns
ParseValid == ppc = "parse" /\ ppc' # ppc /\ rawResponse.text = "valid"
ParseRepaired == ppc = "repairing" /\ ppc' = "parsed"
ParseFails == ppc = "repair" /\ ppc' # ppc /\ rawResponse.text = "unfixable"

\* C13 (as claimed): JSONParser.parse on schema-conformant text returns the
\* data, not marked as repaired, with no extra tokensSent, tokensReceived or
\* cost and without entering the rate limiter; on text the repair pass can
\* coerce it returns the data marked as repaired with strictly positive
\* extra tokensSent = round(promptTokens x 1.10), tokensReceived and cost;
\* when the repair pass fails too, the error goes to the caller and nothing
\* is returned.
C13_ParseOutcomes ==
  [][/\ ParseValid =>
          /\ ppc' = "parsed"
          /\ DOMAIN parsedResponse' = {"data"}
          /\ parsedResponse'.data \in ResponseValues
          /\ UNCHANGED <<limiterVars, historyVars>>
     /\ ParseRepaired =>
          /\ parsedResponse'.parserFixed
          /\ parsedResponse'.data \in ResponseValues
          /\ parsedResponse'.tokensSent = Round110(tokensSent)
          /\ parsedResponse'.tokensSent > 0
          /\ parsedResponse'.tokensReceived > 0
          /\ parsedResponse'.cost > 0
     /\ ParseFails =>
          /\ ppc' = "catch"
          /\ error'.kind = "parse"
          /\ UNCHANGED <<parsedResponse, response, result>>]_vars

\* what the code does hold to: the repaired result carries no price (NaN)
ParseOutcomesUnpriced ==
  [][/\ ParseValid =>
          /\ ppc' = "parsed"
          /\ DOMAIN parsedResponse' = {"data"}
          /\ parsedResponse'.data \in ResponseValues
          /\ UNCHANGED <<limiterVars, historyVars>>
     /\ ParseRepaired =>
          /\ parsedResponse'.parserFixed
          /\ parsedResponse'.data \in ResponseValues
          /\ parsedResponse'.tokensSent = Round110(tokensSent)
          /\ parsedResponse'.tokensSent > 0
          /\ parsedResponse'.tokensReceived > 0
          /\ parsedResponse'.cost = NaN
     /\ ParseFails =>
          /\ ppc' = "catch"
          /\ error'.kind = "parse"
          /\ UNCHANGED <<parsedResponse, response, result>>]_vars

(***************************************************************************)
(* Claims about DocumentPrompt (checked under SpecDocument)                *)
(***************************************************************************)
\* excerpt calls of the run that were issued and have not yet ended
InFlight == Len(submitted) - finished

\* C8: within one DocumentPrompt.call run the excerpts are submitted in
\* document order, the call for an excerpt is issued only when every earlier
\* call has returned or thrown, and never are two excerpt calls in flight:
\* a call is in flight exactly while the loop awaits it.
C8_SequentialExcerpts ==
  /\ \A i, j \in 1..Len(submitted) : i < j => submitted[i] < submitted[j]
  /\ \A i \in 1..Len(submitted) : submitted[i] \in 1..Len(excerpts)
  /\ InFlight \in {0, 1}
  /\ (InFlight = 1) <=> (dpc = "calling")
  /\ dpc = "calling" => submitted[Len(submitted)] = index

\* a third excerpt is in flight after one earlier call returned and one threw
\* and was logged
C8_Witness ==
  /\ dpc = "calling"
  /\ ppc = "loop"
  /\ data.excerpt = 3
  /\ Len(submitted) = 3
  /\ finished = 2
  /\ count = 1
  /\ logged = 1

\* the loop issues the call for the next excerpt
Submits == dpc = "iterate" /\ dpc' = "calling"

\* C9 (as claimed): in a non-dry-run run in which every excerpt's call so far
\* has succeeded, the first call carries no prior response and every later
\* call carries the serialised response the immediately preceding call
\* returned, whatever schema-conformant value that is.
C9_PriorResponseCarried ==
  [][(Submits /\ logged = 0) =>
        data'.response = (IF index' = 1
                            THEN Undefined
                            ELSE JSONstringify(lastResponse))]_vars

\* what the code does hold to: the preceding response is carried when it is
\* not falsy, and the latest response that was not falsy otherwise
TruthyResponseCarried ==
  [][(Submits /\ logged = 0) =>
        data'.response = (IF index' = 1
                            THEN Undefined
                            ELSE IF Truthy(lastResponse)
                              THEN JSONstringify(lastResponse)
                              ELSE IF Truthy(docResponse)
                                THEN JSONstringify(docResponse)
                                ELSE Undefined)]_vars

\* C10 (as claimed): once the progress callback has answered 'stop' after an
\* excerpt, no later excerpt is submitted and the run returns the response
\* and totals accumulated up to that excerpt; for a document of exactly 2
\* excerpts stopped after the first, the count is 1 and the returned response
\* is the first excerpt's result.
C10_StopHalts ==
  stoppedAt > 0 =>
    /\ dpc = "done"
    /\ index = stoppedAt
    /\ ~settings.dryrun => Len(submitted) = stoppedAt
    /\ docResult = Returned
    /\ (Len(excerpts) = 2 /\ stoppedAt = 1 /\ ~settings.dryrun) =>
          /\ count = 1
          /\ docResult.response = lastResponse

\* what the code does hold to: 'stop' ends the run with the totals so far,
\* and the response returned is the first result's unless that is falsy
StopHaltsWithTotals ==
  stoppedAt > 0 =>
    /\ dpc = "done"
    /\ index = stoppedAt
    /\ ~settings.dryrun => Len(submitted) = stoppedAt
    /\ docResult = Returned
    /\ (Len(excerpts) = 2 /\ stoppedAt = 1 /\ ~settings.dryrun) =>
          /\ count = 1
          /\ docResult.response = (IF Truthy(lastResponse)
                                     THEN lastResponse
                                     ELSE Undefined)

\* any other answer of the callback lets the loop go on: before the last
\* excerpt the run ends at the callback only by 'stop'
OnlyStopHalts ==
  [][(dpc = "progress" /\ dpc' = "done" /\ index < Len(excerpts)) =>
        stoppedAt' = index]_vars

\* C11: an error thrown while one excerpt is processed (by the engine call
\* or by the progress callback) never leaves DocumentPrompt.call and never
\* keeps a remaining excerpt from being attempted: the run never ends by
\* throwing, and when it has ended it has returned its totals after going
\* through every excerpt up to the last one or up to the 'stop'.
C11_ErrorsIsolated ==
  /\ dpc # "threw"
  /\ dpc = "done" =>
       /\ docResult = Returned
       /\ index = (IF stoppedAt > 0 THEN stoppedAt ELSE Len(excerpts))
       /\ ~settings.dryrun => submitted = [i \in 1..index |-> i]
       /\ finished = Len(submitted)

\* a run of three excerpts has returned after the loop logged a
\* budget-exceeded error, a retry-exhausted error and a callback error
C11_Witness ==
  /\ dpc = "done"
  /\ stoppedAt = 0
  /\ Len(excerpts) = 3
  /\ submitted = <<1, 2, 3>>
  /\ logged = 3
  /\ "budget" \in loggedKinds
  /\ "progress" \in loggedKinds
  /\ loggedKinds \cap {"completion", "parse"} # {}

\* C12 (as claimed): the tokensSent, tokensReceived and cost a non-dry-run
\* DocumentPrompt.call returns are the totals over every excerpt attempted,
\* those of the calls that ended in a logged failure included, and the
\* response returned is the last response obtained.
C12_TotalsCoverEveryAttempt ==
  (dpc = "done" /\ ~settings.dryrun) =>
    /\ docResult.tokensSent = consumed.tokensSent
    /\ docResult.tokensReceived = consumed.tokensReceived
    /\ docResult.cost = consumed.cost
    /\ docResult.response = lastResponse

\* the totals alone, as claimed
TotalsCoverFailedCalls ==
  (dpc = "done" /\ ~settings.dryrun) =>
    /\ docResult.tokensSent = consumed.tokensSent
    /\ docResult.tokensReceived = consumed.tokensReceived
    /\ docResult.cost = consumed.cost

\* what the code does hold to: the totals cover the calls that returned (a
\* call that threw adds nothing), and the response is the last one that was
\* not falsy
TotalsCoverReturnedCalls ==
  (dpc = "done" /\ ~settings.dryrun) =>
    /\ loggedKinds \cap {"completion", "parse"} = {} =>
         /\ docResult.tokensSent = consumed.tokensSent
         /\ docResult.tokensReceived = consumed.tokensReceived
         /\ docResult.cost = consumed.cost
    /\ docResult.tokensSent <= consumed.tokensSent
    /\ docResult.tokensReceived <= consumed.tokensReceived
    /\ docResult.cost <= consumed.cost
    /\ Truthy(lastResponse) => docResult.response = lastResponse

\* the estimate of the dry run for one excerpt: tokenCount + responseTokenLength
ExcerptEstimate(i) ==
  PromptTokens([excerpt |-> i, response |-> Undefined]) + DocResponseTokenLength

\* the estimates of the first n excerpts summed, and their costs summed
RECURSIVE EstimateSum(_)
EstimateSum(n) == IF n = 0 THEN 0 ELSE EstimateSum(n - 1) + ExcerptEstimate(n)

RECURSIVE EstimateCostSum(_)
EstimateCostSum(n) ==
  IF n = 0
    THEN 0
    ELSE EstimateCostSum(n - 1)
           + calculateCost(SharedModel(DefaultModel), ExcerptEstimate(n), ExcerptEstimate(n))

\* the cost the loop adds up: each excerpt priced with the running totals
RECURSIVE RunningCostSum(_)
RunningCostSum(n) ==
  IF n = 0
    THEN 0
    ELSE RunningCostSum(n - 1)
           + calculateCost(SharedModel(DefaultModel), EstimateSum(n), EstimateSum(n))

\* C16 (as claimed): DocumentPrompt.call in dry-run mode never calls the
\* engine (no completion, no rate limiter) for any excerpt, leaves the
\* response undefined and returns the per-excerpt estimates summed:
\* tokensSent = tokensReceived = sum of (tokenCount_i + responseTokenLength)
\* and cost = sum of calculateCost of each excerpt's estimate.
C16_DryRunTotals ==
  (dpc = "done" /\ settings.dryrun) =>
    /\ submitted = <<>>
    /\ completions = 0
    /\ \A j \in Jobs : jpc[j] = "idle"
    /\ docResult.response = Undefined
    /\ docResult.tokensSent = EstimateSum(index)
    /\ docResult.tokensReceived = EstimateSum(index)
    /\ docResult.cost = EstimateCostSum(index)

\* what the code does hold to: the cost of each excerpt is computed from the
\* running totals, so it is the sum of the estimates' costs for one excerpt
\* only
DryRunTotalsRepriced ==
  (dpc = "done" /\ settings.dryrun) =>
    /\ submitted = <<>>
    /\ completions = 0
    /\ \A j \in Jobs : jpc[j] = "idle"
    /\ docResult.response = Undefined
    /\ docResult.tokensSent = EstimateSum(index)
    /\ docResult.tokensReceived = EstimateSum(index)
    /\ docResult.cost = RunningCostSum(index)
    /\ index = 1 => docResult.cost = EstimateCostSum(index)

\* C18 (as claimed): when invocations of call on one Prompt overlap with
\* different data, the messages an invocation sends to the completion are
\* rendered from its own data only.
C18_MessagesFromOwnData ==
  \A i \in Invocations : sentFrom[i] \subseteq {callData[i]}

\* What the code holds to: an invocation that no other invocation overlapped
\* sends messages rendered from its own data.
MessagesFromOwnDataWhenAlone ==
  \A i \in Invocations : alone[i] => sentFrom[i] \subseteq {callData[i]}

\* What the code holds to: every rendering an invocation sends comes from the
\* data of some call made on the instance, never from the constructor's.
MessagesFromSomeCall ==
  \A i \in Invocations : sentFrom[i] \subseteq CallInputs


\* a caller suspended in process on a limiter whose capacities are at least 1
Suspended(j) ==
  /\ reqCapacity(DefaultModel) >= 1
  /\ tokCapacity(DefaultModel) >= 1
  /\ jpc[j] \in Queued

\* the caller's process call has returned, or rejected with the task's error
Settled(j) == jpc[j] \in {"returned", "threw"}

\* C20: with both capacities of the model at least 1 and every task
\* terminating, every caller suspended in RateLimiter.process, the repair
\* pass queued while its enclosing call is still running included, is
\* eventually admitted and its process call settles.
C20_EveryCallerSettles ==
  \A j \in Jobs : Suspended(j) ~> Settled(j)

\* the repair pass was admitted and returned while the enclosing call's task
\* is still running, another caller has returned and the reported usage has
\* driven the token reservoir below zero
C20_Witness ==
  /\ reqCapacity(DefaultModel) >= 1
  /\ tokCapacity(DefaultModel) >= 1
  /\ jpc[RepairJob] = "returned"
  /\ jpc[CallJob] = "running"
  /\ \E j \in Tasks : jpc[j] = "returned"
  /\ tokReservoir[DefaultModel] < 0

\* the fields of the value a real call returns
CallResultFields == {"response", "tokensSent", "tokensReceived", "cost"}

\* C21 (as claimed): for every maxRetries >= 0 a real call that passed the
\* budget check and completes normally returns a result with a response,
\* tokensSent, tokensReceived and cost, after at least one completion.
C21_ReturnsResultOrThrows ==
  (RealCall /\ ppc = "returned") =>
    /\ result # Undefined
    /\ DOMAIN result = CallResultFields
    /\ completions >= 1

\* What the code holds to: the claim for maxRetries >= 1; with maxRetries = 0
\* the loop is never entered and the call returns undefined without a
\* completion and without an admission.
ReturnsResultUnlessNoRetries ==
  (RealCall /\ ppc = "returned") =>
    IF maxRetries >= 1
      THEN /\ DOMAIN result = CallResultFields
           /\ completions >= 1
      ELSE /\ result = Undefined
           /\ completions = 0
           /\ attempts = 0

\* the loop is about to build the figures of the excerpt at index + 1
FiguresDue == dpc = "iterate" /\ index < Len(excerpts)

\* C22 (as claimed): for every excerpt of a run the figures passed on satisfy
\* 0 <= remainingPercentageLength <= 100 and currentPercentageLength +
\* excerptPercentageLength <= 100.
C22_PercentagesWithinBounds ==
  FiguresDue =>
    /\ remainingPercentageLength(index + 1) >= 0
    /\ remainingPercentageLength(index + 1) <= 100
    /\ currentPercentageLength + excerpts[index + 1].excerptPercentageLength <= 100

\* What the code holds to: the two rounded percentages can each gain half a
\* point, so their sum reaches 101 and remainingPercentageLength -1; each
\* figure alone stays within 0..100, and with a chunkOverlap of one token or
\* more, which enlarges totalTextTokenLength, the claimed bounds hold.
PercentagesWithinOnePoint ==
  FiguresDue =>
    /\ currentPercentageLength \in 0..100
    /\ excerpts[index + 1].excerptPercentageLength \in 0..100
    /\ remainingPercentageLength(index + 1) \in (0 - 1)..100
    /\ totalTextTokenLength > currentTokenCount + excerpts[index + 1].excerptTokenLength
         => remainingPercentageLength(index + 1) >= 0

====
